---- MODULE Spec2Model ----
(***************************************************************************)
(* Bad-channel detection of spikeinterface/preprocessing/                  *)
(* remove_bad_channels.py: detect_bad_channels (multi-chunk aggregator),   *)
(* handle_random_chunk_kwargs, detect_bad_channels_ibl (single-chunk       *)
(* classifier) and channel_similarity / nxcor.                              *)
(*                                                                         *)
(* Units.  Similarity features (xcor_hf, xcor_lf) and power features       *)
(* (psd_hf) are integers in hundredths: -0.5 is -50, 1 is 100, -0.75 is    *)
(* -75, 0.02 is 2 and 1.4 is 140.  Channel positions are 0-based as in the *)
(* source.  A Python value that may be None is a set: {} is None and {v}   *)
(* is the value v.  A Python dict is a function on its set of keys.        *)
(***************************************************************************)
EXTENDS Integers, Sequences, FiniteSets

VARIABLES
    \* ---- detect_bad_channels ----
    pc,                   \* position in detect_bad_channels
    error,                \* exception that ended the call, "none" if none
    recording,            \* [fs, num_channels, num_segments, channel_ids]
    psd_arg,              \* argument psd_hf_threshold ({} is None)
    user_kwargs,          \* argument random_chunk_kwargs ({} is None)
    psd_hf_threshold,     \* local psd_hf_threshold once resolved
    random_chunk_kwargs,  \* merged kwargs ({} before line 117)
    scale_for_testing,
    sampler_calls,        \* kwargs of each get_random_data_chunks call
    num_chunks,           \* len(random_data)
    channel_labels,       \* channels x chunks matrix
    i,                    \* loop index of line 126
    ibl_calls,            \* arguments of each detect_bad_channels_ibl call
    channel_flags,
    bad_inds,
    bad_channel_ids,
    warned,
    result,               \* returned triple ({} while nothing is returned)
    \* ---- detect_bad_channels_ibl on one chunk ----
    ibl_pc,
    nc,
    xfeats,
    ioutside,
    ichannels,
    \* ---- channel_similarity on one chunk ----
    sim_pc,
    raw,
    xcor,
    alt_comp,
    sim_error,
    \* ---- detrend on one vector ----
    det_pc,
    det_x,                \* argument x
    det_nmed,             \* argument nmed
    det_xf,               \* local xf
    det_out               \* returned vector

mainVars == <<pc, error, recording, psd_arg, user_kwargs, psd_hf_threshold,
              random_chunk_kwargs, scale_for_testing, sampler_calls, num_chunks,
              channel_labels, i, ibl_calls, channel_flags, bad_inds,
              bad_channel_ids, warned, result>>
iblVars == <<ibl_pc, nc, xfeats, ioutside, ichannels>>
simVars == <<sim_pc, raw, xcor, alt_comp, sim_error>>
detVars == <<det_pc, det_x, det_nmed, det_xf, det_out>>
vars == <<mainVars, iblVars, simVars, detVars>>

\* ------------------------------------------------------------------ bounds
MaxChannels == 3
MaxChunks == 3
MaxNc == 10
MaxSamples == 3
MaxLen == 4
MaxHalfWindow == 2

\* ------------------------------------------------------- program constants
SimilarityLow == -50
SimilarityHigh == 100
OutsideThreshold == -75
PsdLowFs == 140
PsdHighFs == 2
FsSwitch == 5000
DefaultNumChunks == 10
DefaultSeed == 0
similarity_threshold == <<SimilarityLow, SimilarityHigh>>

\* ----------------------------------------------------------------- helpers
Range(s) == {s[k] : k \in DOMAIN s}

MinOfSet(S) == CHOOSE x \in S : \A y \in S : x <= y

MaxOfSet(S) == CHOOSE x \in S : \A y \in S : x >= y

RECURSIVE AscendingSeq(_)
\* np.where(mask)[0]: the positions of a mask, ascending
AscendingSeq(S) ==
    IF S = {} THEN <<>>
    ELSE LET m == MaxOfSet(S) IN Append(AscendingSeq(S \ {m}), m)

\* np.diff(s) - 1: the gap before each element but the first
GapsOf(s) == [k \in 1..(Len(s) - 1) |-> s[k + 1] - s[k] - 1]

RECURSIVE CumSum(_)
\* np.cumsum
CumSum(s) ==
    IF Len(s) = 0 THEN <<>>
    ELSE LET head == CumSum(SubSeq(s, 1, Len(s) - 1))
         IN  Append(head, (IF Len(head) = 0 THEN 0 ELSE head[Len(head)]) + s[Len(s)])

\* a[mask]: the elements of s at the positions where mask holds, in order
RECURSIVE TakeWhere(_, _)
TakeWhere(s, mask) ==
    IF Len(s) = 0 THEN <<>>
    ELSE LET rest == TakeWhere(SubSeq(s, 1, Len(s) - 1), SubSeq(mask, 1, Len(s) - 1))
         IN  IF mask[Len(s)] THEN Append(rest, s[Len(s)]) ELSE rest

\* ------------------------------------------ detect_bad_channels_ibl, labels
\* np.zeros(nc)
Zeros(n) == [c \in 0..(n - 1) |-> 0]

\* a[idx] = v for an index array idx
Assign(a, idx, v) == [c \in DOMAIN a |-> IF c \in Range(idx) THEN v ELSE a[c]]

\* line 233
Idead(xf, n, sim) == AscendingSeq({c \in 0..(n - 1) : sim[1] > xf[c].xcor_hf})

\* line 234
Inoisy(xf, n, psd, sim) ==
    AscendingSeq({c \in 0..(n - 1) : xf[c].psd_hf > psd \/ xf[c].xcor_hf > sim[2]})

\* line 237
IoutsideFlagged(xf, n) == AscendingSeq({c \in 0..(n - 1) : xf[c].xcor_lf < OutsideThreshold})

\* line 239: a = np.cumsum(np.r_[0, np.diff(ioutside) - 1])
GapCount(io) == CumSum(<<0>> \o GapsOf(io))

\* LastRunOf gone wrong: the first run is kept (a == np.min(a))
LastRunOfKeepsFirstRun(io) ==
    LET a == GapCount(io)
        bottom == MinOfSet(Range(a))
    IN  TakeWhere(io, [k \in 1..Len(io) |-> a[k] = bottom])

\* line 240: ioutside[a == np.max(a)]
LastRunOf(io) ==
    LET a == GapCount(io)
        top == MaxOfSet(Range(a))
    IN  TakeWhere(io, [k \in 1..Len(io) |-> a[k] = top])

\* line 238: the guard of the outside branch
TouchesLast(io, n) == Len(io) > 0 /\ io[Len(io)] = n - 1

\* lines 237-240: ioutside as it stands after the branch
IoutsideOf(xf, n) ==
    LET io == IoutsideFlagged(xf, n)
    IN  IF TouchesLast(io, n) THEN LastRunOf(io) ELSE io

\* MarkOutside gone wrong: the last run is marked wherever it ends
MarkOutsideAnywhere(xf, n) ==
    LET io == IoutsideFlagged(xf, n)
    IN  IF Len(io) > 0 THEN Assign(Zeros(n), LastRunOf(io), 3) ELSE Zeros(n)

\* lines 232, 237-241: labels after the outside branch
MarkOutside(xf, n) ==
    LET io == IoutsideFlagged(xf, n)
    IN  IF TouchesLast(io, n) THEN Assign(Zeros(n), LastRunOf(io), 3) ELSE Zeros(n)

\* line 243
MarkDead(ich, xf, n, sim) == Assign(ich, Idead(xf, n, sim), 1)

\* MarkNoisy gone wrong: a channel already labeled dead keeps its label
MarkNoisyKeepsDead(ich, xf, n, psd, sim) ==
    [c \in DOMAIN ich |->
        IF c \in Range(Inoisy(xf, n, psd, sim)) /\ ich[c] # 1 THEN 2 ELSE ich[c]]

\* line 244
MarkNoisy(ich, xf, n, psd, sim) == Assign(ich, Inoisy(xf, n, psd, sim), 2)

\* lines 231-246: the label vector returned for one chunk
DetectBadChannelsIbl(xf, n, psd, sim) ==
    MarkNoisy(MarkDead(MarkOutside(xf, n), xf, n, sim), xf, n, psd, sim)

\* ------------------------------------- detect_bad_channels_ibl as a machine
\* The feature vectors of lines 223-229 are inputs here.  Each feature takes
\* the values just beside the threshold it is compared with.
XcorHfValues == {SimilarityLow - 1, SimilarityLow, SimilarityHigh, SimilarityHigh + 1}
XcorLfValues == {OutsideThreshold - 1, OutsideThreshold}
PsdHfValues == {PsdHighFs, PsdHighFs + 1}
FeatureValues == [xcor_hf : XcorHfValues, xcor_lf : XcorLfValues, psd_hf : PsdHfValues]

\* a channel with no feature beyond a threshold, flagged or not by xcor_lf
QuietChannel(flagged) ==
    [xcor_hf |-> SimilarityLow,
     xcor_lf |-> IF flagged THEN OutsideThreshold - 1 ELSE OutsideThreshold,
     psd_hf |-> PsdHighFs]

\* psd_hf_threshold and similarity_threshold of the single-chunk runs
IblPsd == PsdHighFs

IblIdle == ibl_pc = "idle" /\ nc = 0 /\ xfeats = <<>> /\ ioutside = <<>> /\ ichannels = <<>>

MainIdle ==
    /\ pc = "idle" /\ error = "none"
    /\ recording = [fs |-> 0, num_channels |-> 0, num_segments |-> 0, channel_ids |-> <<>>]
    /\ psd_arg = {} /\ user_kwargs = {} /\ psd_hf_threshold = {}
    /\ random_chunk_kwargs = {} /\ scale_for_testing = FALSE
    /\ sampler_calls = <<>> /\ num_chunks = 0 /\ channel_labels = <<>> /\ i = 0
    /\ ibl_calls = <<>> /\ channel_flags = <<>> /\ bad_inds = <<>>
    /\ bad_channel_ids = <<>> /\ warned = FALSE /\ result = {}

SimIdle == sim_pc = "idle" /\ raw = <<>> /\ xcor = <<>> /\ alt_comp = <<>> /\ sim_error = "none"

DetIdle == det_pc = "idle" /\ det_x = <<>> /\ det_nmed = 0 /\ det_xf = <<>> /\ det_out = <<>>

\* Either every channel takes every feature combination (few channels), or
\* the channels are quiet and any set of them is flagged by xcor_lf.
InitIbl ==
    /\ MainIdle /\ SimIdle /\ DetIdle
    /\ ibl_pc = "features"
    /\ \/ /\ nc \in 1..MaxChannels
          /\ xfeats \in [0..(nc - 1) -> FeatureValues]
       \/ /\ nc \in 1..MaxNc
          /\ \E F \in SUBSET (0..(nc - 1)) :
                xfeats = [c \in 0..(nc - 1) |-> QuietChannel(c \in F)]
    /\ ioutside = <<>>
    /\ ichannels = <<>>

\* lines 232, 236-241
IblMarkOutside ==
    /\ ibl_pc = "features"
    /\ ioutside' = IoutsideOf(xfeats, nc)
    /\ ichannels' = MarkOutside(xfeats, nc)
    /\ ibl_pc' = "outside_marked"
    /\ UNCHANGED <<nc, xfeats, mainVars, simVars, detVars>>

\* line 243
IblMarkDead ==
    /\ ibl_pc = "outside_marked"
    /\ ichannels' = MarkDead(ichannels, xfeats, nc, similarity_threshold)
    /\ ibl_pc' = "dead_marked"
    /\ UNCHANGED <<nc, xfeats, ioutside, mainVars, simVars, detVars>>

\* lines 244, 246
IblMarkNoisy ==
    /\ ibl_pc = "dead_marked"
    /\ ichannels' = MarkNoisy(ichannels, xfeats, nc, IblPsd, similarity_threshold)
    /\ ibl_pc' = "returned"
    /\ UNCHANGED <<nc, xfeats, ioutside, mainVars, simVars, detVars>>

NextIbl == IblMarkOutside \/ IblMarkDead \/ IblMarkNoisy

SpecIbl == InitIbl /\ [][NextIbl]_vars

\* ------------------------------------------------ detect_bad_channels
\* dict.update: the keys of b override those of a
DictUpdate(a, b) == [k \in (DOMAIN a) \cup (DOMAIN b) |-> IF k \in DOMAIN b THEN b[k] ELSE a[k]]

\* dict.pop(key)
DictPop(d, key) == [k \in (DOMAIN d) \ {key} |-> d[k]]

\* line 166: int(0.3 * fs)
ChunkSize(fs) == (3 * fs) \div 10

\* lines 167-171
DefaultRandomChunkKwargs(rec) ==
    [return_scaled |-> TRUE,
     num_chunks_per_segment |-> DefaultNumChunks,
     chunk_size |-> ChunkSize(rec.fs),
     concatenated |-> FALSE,
     seed |-> DefaultSeed]

\* lines 162-163: the test that raises; `in` on None is a TypeError
ConcatenationRequested(user) ==
    \E u \in user : "concatenated" \in DOMAIN u /\ u["concatenated"]

\* lines 166-174: the defaults overwritten by what the user gave
MergedKwargs(rec, user) ==
    IF user = {} THEN DefaultRandomChunkKwargs(rec)
    ELSE LET u == CHOOSE u \in user : TRUE IN DictUpdate(DefaultRandomChunkKwargs(rec), u)

\* lines 180-190: handle_test_case, the flag and the kwargs without the key
ScaleForTesting(kwargs) == "scale_for_testing" \in DOMAIN kwargs

WithoutTestKey(kwargs) ==
    IF "scale_for_testing" \in DOMAIN kwargs THEN DictPop(kwargs, "scale_for_testing") ELSE kwargs

\* line 114: the default threshold
DefaultPsdThreshold(fs) == IF fs < FsSwitch THEN PsdLowFs ELSE PsdHighFs

\* lines 123-124: np.zeros((channels, segments * chunks per segment))
EmptyChannelLabels(rec, kwargs) ==
    [c \in 0..(rec.num_channels - 1) |->
        [j \in 0..(rec.num_segments * kwargs.num_chunks_per_segment - 1) |-> 0]]

\* WriteColumn gone wrong: the labels are written to every column
WriteColumnBroadcasts(m, j, labels) == [c \in DOMAIN m |-> [k \in DOMAIN m[c] |-> labels[c]]]

\* line 128: channel_labels[:, j] = labels
WriteColumn(m, j, labels) == [c \in DOMAIN m |-> [m[c] EXCEPT ![j] = labels[c]]]

CountOf(row, v) == Cardinality({j \in DOMAIN row : row[j] = v})

\* ModeOf gone wrong: among the most frequent values the highest is taken
ModeOfTakesHighest(row) ==
    LET best == MaxOfSet({CountOf(row, v) : v \in Range(row)})
    IN  MaxOfSet({v \in Range(row) : CountOf(row, v) = best})

\* scipy.stats.mode of one row: the most frequent value, the lowest of them
ModeOf(row) ==
    LET best == MaxOfSet({CountOf(row, v) : v \in Range(row)})
    IN  MinOfSet({v \in Range(row) : CountOf(row, v) = best})

\* line 136: scipy.stats.mode(channel_labels, axis=1)
ChannelFlags(m) == [c \in DOMAIN m |-> ModeOf(m[c])]

\* BadInds gone wrong: only the dead channels are reported
BadIndsOnlyDead(flags) == AscendingSeq({c \in DOMAIN flags : flags[c] = 1})

\* line 138: np.where(channel_flags != 0)
BadInds(flags) == AscendingSeq({c \in DOMAIN flags : flags[c] # 0})

\* line 139: recording.get_channel_ids()[bad_inds]
BadChannelIds(rec, inds) == [k \in 1..Len(inds) |-> rec.channel_ids[inds[k]]]

\* line 141: size > num_channels * 0.333, in thousandths
OverOneThird(size, n) == 1000 * size > 333 * n

\* ---- inputs
SamplingFrequencies == {FsSwitch - 1, FsSwitch}
PsdArguments == {{}, {PsdHighFs}, {PsdLowFs}}

SegmentCounts == {1, 2}

Recordings ==
    {[fs |-> f, num_channels |-> n, num_segments |-> g,
      channel_ids |-> [k \in 0..(n - 1) |-> n - k]] :
        f \in SamplingFrequencies, n \in 1..MaxChannels, g \in SegmentCounts}

\* None, a request for concatenation, a chunk count alone, and (one chunk per
\* segment) a full override and the test flag
UserKwargs(rec) ==
    {{}, {[concatenated |-> TRUE]}}
    \cup {{[num_chunks_per_segment |-> k]} :
            k \in {k \in 1..MaxChunks : rec.num_segments * k <= MaxChunks}}
    \cup {{[num_chunks_per_segment |-> 1, concatenated |-> FALSE, seed |-> 1, chunk_size |-> 100]},
          {[num_chunks_per_segment |-> 1, scale_for_testing |-> TRUE]}}

\* The chunks a recording of n channels yields, by their features: a quiet
\* chunk, one channel dead, one channel above the lower power threshold, or
\* the channels from k on flagged by xcor_lf.
Chunks(n) ==
    {[c \in 0..(n - 1) |-> QuietChannel(FALSE)]}
    \cup {[c \in 0..(n - 1) |-> IF c = d THEN [QuietChannel(FALSE) EXCEPT !.xcor_hf = SimilarityLow - 1]
                                 ELSE QuietChannel(FALSE)] : d \in 0..(n - 1)}
    \cup {[c \in 0..(n - 1) |-> IF c = d THEN [QuietChannel(FALSE) EXCEPT !.psd_hf = PsdHighFs + 1]
                                 ELSE QuietChannel(FALSE)] : d \in 0..(n - 1)}
    \cup {[c \in 0..(n - 1) |-> QuietChannel(c >= k)] : k \in 0..(n - 1)}

Init ==
    /\ IblIdle /\ SimIdle /\ DetIdle
    /\ pc = "start" /\ error = "none"
    /\ recording \in Recordings
    /\ psd_arg \in PsdArguments
    /\ user_kwargs \in UserKwargs(recording)
    /\ psd_hf_threshold = {} /\ random_chunk_kwargs = {} /\ scale_for_testing = FALSE
    /\ sampler_calls = <<>> /\ num_chunks = 0 /\ channel_labels = <<>> /\ i = 0
    /\ ibl_calls = <<>> /\ channel_flags = <<>> /\ bad_inds = <<>>
    /\ bad_channel_ids = <<>> /\ warned = FALSE /\ result = {}

Raise(e) == pc' = "failed" /\ error' = e

\* lines 113-114: `fs` is no name of detect_bad_channels nor of the module
ResolveThreshold ==
    /\ pc = "start"
    /\ IF psd_arg = {}
       THEN Raise("NameError") /\ UNCHANGED psd_hf_threshold
       ELSE pc' = "kwargs" /\ psd_hf_threshold' = psd_arg /\ UNCHANGED error
    /\ UNCHANGED <<recording, psd_arg, user_kwargs, random_chunk_kwargs, scale_for_testing,
                   sampler_calls, num_chunks, channel_labels, i, ibl_calls, channel_flags,
                   bad_inds, bad_channel_ids, warned, result, iblVars, simVars, detVars>>

\* lines 117-118, 149-178
HandleRandomChunkKwargs ==
    /\ pc = "kwargs"
    /\ IF user_kwargs = {}
       THEN Raise("TypeError") /\ UNCHANGED <<random_chunk_kwargs, scale_for_testing>>
       ELSE IF ConcatenationRequested(user_kwargs)
       THEN Raise("AttributeError") /\ UNCHANGED <<random_chunk_kwargs, scale_for_testing>>
       ELSE LET merged == MergedKwargs(recording, user_kwargs)
            IN  /\ random_chunk_kwargs' = {WithoutTestKey(merged)}
                /\ scale_for_testing' = ScaleForTesting(merged)
                /\ pc' = "sample"
                /\ UNCHANGED error
    /\ UNCHANGED <<recording, psd_arg, user_kwargs, psd_hf_threshold,
                   sampler_calls, num_chunks, channel_labels, i, ibl_calls, channel_flags,
                   bad_inds, bad_channel_ids, warned, result, iblVars, simVars, detVars>>

\* the length of the list get_random_data_chunks returns
NumRandomChunks(rec, kwargs) == rec.num_segments * kwargs.num_chunks_per_segment

\* line 119
GetRandomDataChunks ==
    /\ pc = "sample"
    /\ \E kwargs \in random_chunk_kwargs :
          /\ sampler_calls' = Append(sampler_calls, kwargs)
          /\ num_chunks' = NumRandomChunks(recording, kwargs)
    /\ pc' = "labels"
    /\ UNCHANGED <<error, recording, psd_arg, user_kwargs, psd_hf_threshold, random_chunk_kwargs,
                   scale_for_testing, channel_labels, i, ibl_calls, channel_flags,
                   bad_inds, bad_channel_ids, warned, result, iblVars, simVars, detVars>>

\* lines 121-124
CreateChannelLabels ==
    /\ pc = "labels"
    /\ \E kwargs \in random_chunk_kwargs :
          channel_labels' = EmptyChannelLabels(recording, kwargs)
    /\ i' = 0
    /\ pc' = "loop"
    /\ UNCHANGED <<error, recording, psd_arg, user_kwargs, psd_hf_threshold, random_chunk_kwargs,
                   scale_for_testing, sampler_calls, num_chunks, ibl_calls, channel_flags,
                   bad_inds, bad_channel_ids, warned, result, iblVars, simVars, detVars>>

\* lines 126-132: one turn of the loop.  The chunk is drawn when the loop
\* reaches it; `agree` is the outcome of the assertions of lines 215 and 286.
ClassifyChunk ==
    /\ pc = "loop"
    /\ i < num_chunks
    /\ \E chunk \in Chunks(recording.num_channels), agree \in BOOLEAN, thr \in psd_hf_threshold :
          /\ ibl_calls' = Append(ibl_calls,
                 [fs |-> recording.fs, psd_hf_threshold |-> thr,
                  similarity_threshold |-> similarity_threshold,
                  scale_for_testing |-> scale_for_testing])
          /\ IF ~agree
             THEN Raise("AssertionError") /\ UNCHANGED <<channel_labels, i>>
             ELSE IF \E c \in DOMAIN channel_labels : i \notin DOMAIN channel_labels[c]
             THEN Raise("IndexError") /\ UNCHANGED <<channel_labels, i>>
             ELSE /\ channel_labels' =
                        WriteColumn(channel_labels, i,
                            DetectBadChannelsIbl(chunk, recording.num_channels, thr,
                                                 similarity_threshold))
                  /\ i' = i + 1
                  /\ UNCHANGED <<pc, error>>
    /\ UNCHANGED <<recording, psd_arg, user_kwargs, psd_hf_threshold, random_chunk_kwargs,
                   scale_for_testing, sampler_calls, num_chunks, channel_flags,
                   bad_inds, bad_channel_ids, warned, result, iblVars, simVars, detVars>>

\* lines 134-139: the mode of every row, then the bad positions and ids
TakeMode ==
    /\ pc = "loop"
    /\ i = num_chunks
    /\ channel_flags' = ChannelFlags(channel_labels)
    /\ bad_inds' = BadInds(ChannelFlags(channel_labels))
    /\ bad_channel_ids' = BadChannelIds(recording, BadInds(ChannelFlags(channel_labels)))
    /\ pc' = "warn"
    /\ UNCHANGED <<error, recording, psd_arg, user_kwargs, psd_hf_threshold, random_chunk_kwargs,
                   scale_for_testing, sampler_calls, num_chunks, channel_labels, i, ibl_calls,
                   warned, result, iblVars, simVars, detVars>>

\* lines 141-146: warnings.warn raises nothing, the triple is returned
WarnAndReturn ==
    /\ pc = "warn"
    /\ warned' = OverOneThird(Len(bad_channel_ids), recording.num_channels)
    /\ result' = {<<bad_inds, bad_channel_ids, channel_flags>>}
    /\ pc' = "done"
    /\ UNCHANGED <<error, recording, psd_arg, user_kwargs, psd_hf_threshold, random_chunk_kwargs,
                   scale_for_testing, sampler_calls, num_chunks, channel_labels, i, ibl_calls,
                   channel_flags, bad_inds, bad_channel_ids, iblVars, simVars, detVars>>

Next ==
    \/ ResolveThreshold
    \/ HandleRandomChunkKwargs
    \/ GetRandomDataChunks
    \/ CreateChannelLabels
    \/ ClassifyChunk
    \/ TakeMode
    \/ WarnAndReturn

Spec == Init /\ [][Next]_vars

\* ------------------------------------------------- channel_similarity
\* Exact arithmetic on integers.  A chunk x is a function sample -> channel
\* -> value.  Centering multiplies by the number of samples ns instead of
\* dividing by it, and the median is doubled, so every intermediate value is
\* an integer multiple of the source's value; a ratio is a pair <<num, den>>
\* in which these factors cancel.  A ratio with den = 0 is the source's nan
\* or inf.
RECURSIVE SumTo(_, _)
\* f[0] + ... + f[n-1]
SumTo(f, n) == IF n = 0 THEN 0 ELSE SumTo(f, n - 1) + f[n - 1]

SamplesOf(x) == Cardinality(DOMAIN x)

ChannelsOf(x) == DOMAIN x[0]

ColumnOf(x, c) == [s \in DOMAIN x |-> x[s][c]]

\* x - np.mean(x, axis=0), times ns
CenterColumns(x) ==
    [s \in DOMAIN x |->
        [c \in ChannelsOf(x) |-> SamplesOf(x) * x[s][c] - SumTo(ColumnOf(x, c), SamplesOf(x))]]

\* ref - np.mean(ref), times ns
CenterVector(v) == [s \in DOMAIN v |-> Cardinality(DOMAIN v) * v[s] - SumTo(v, Cardinality(DOMAIN v))]

\* the k-th smallest value (k from 0) of a row
KthSmallest(row, k) ==
    CHOOSE v \in Range(row) :
        /\ Cardinality({c \in DOMAIN row : row[c] < v}) <= k
        /\ Cardinality({c \in DOMAIN row : row[c] <= v}) > k

\* np.median of a row, doubled: the middle value, or the mean of the two
Median2(row) ==
    LET n == Cardinality(DOMAIN row)
    IN  IF n % 2 = 1 THEN 2 * KthSmallest(row, n \div 2)
        ELSE KthSmallest(row, n \div 2 - 1) + KthSmallest(row, n \div 2)

\* lines 276, 283: ref = np.median(raw, axis=1), doubled
MedianReference(x) == [s \in DOMAIN x |-> Median2(x[s])]

Dot(u, v) == SumTo([s \in DOMAIN u |-> u[s] * v[s]], Cardinality(DOMAIN u))

\* lines 290-292: fxcor(x, y)[0], the circular cross-correlation at lag 0
FxcorAtZero(u, v) == Dot(u, v)

\* lines 277, 285: np.sum(raw * ref, axis=0) / np.sum(ref ** 2), per channel
DirectSimilarity(x) ==
    LET ref == MedianReference(x)
    IN  [c \in ChannelsOf(x) |-> <<2 * Dot(ColumnOf(x, c), ref), Dot(ref, ref)>>]

\* lines 294-299: nxcor(x, ref)
Nxcor(x, ref) ==
    LET refc == CenterVector(ref)
        apeak == FxcorAtZero(refc, refc)
        xc == CenterColumns(x)
    IN  [c \in ChannelsOf(x) |-> <<2 * FxcorAtZero(ColumnOf(xc, c), refc), apeak>>]

Abs(a) == IF a < 0 THEN -a ELSE a

\* |p - q| <= 1 / per for two ratios (np.allclose with rtol = 0); nan and
\* inf are close to nothing
RatiosClose(p, q, per) ==
    /\ p[2] # 0 /\ q[2] # 0
    /\ Abs(p[1] * q[2] - q[1] * p[2]) <= Abs(p[2] * q[2]) \div per

AllClose(a, b, per) == \A c \in DOMAIN a : RatiosClose(a[c], b[c], per)

\* the raw values of a chunk
RawValues == {0, 1}

InitSim ==
    /\ MainIdle /\ IblIdle /\ DetIdle
    /\ sim_pc = "chunk"
    /\ \E ns \in 1..MaxSamples, n \in 1..MaxChannels :
          raw \in [0..(ns - 1) -> [0..(n - 1) -> RawValues]]
    /\ xcor = <<>> /\ alt_comp = <<>> /\ sim_error = "none"

\* lines 210-212, 281-288: the chunk is centered and channel_similarity runs
ChannelSimilarity ==
    /\ sim_pc = "chunk"
    /\ LET x == CenterColumns(raw)
           fft == Nxcor(x, MedianReference(x))
           direct == DirectSimilarity(x)
       IN  /\ raw' = x
           /\ xcor' = fft
           /\ alt_comp' = direct
           /\ IF AllClose(fft, direct, 100)
              THEN sim_pc' = "similarity" /\ UNCHANGED sim_error
              ELSE sim_pc' = "failed" /\ sim_error' = "AssertionError"
    /\ UNCHANGED <<mainVars, iblVars, detVars>>

\* lines 214-215: channel_simiarlity_new and its assertion
CheckSimilarityNew ==
    /\ sim_pc = "similarity"
    /\ IF AllClose(xcor, DirectSimilarity(raw), 10000)
       THEN sim_pc' = "checked" /\ UNCHANGED sim_error
       ELSE sim_pc' = "failed" /\ sim_error' = "AssertionError"
    /\ UNCHANGED <<raw, xcor, alt_comp, mainVars, iblVars, detVars>>

NextSim == ChannelSimilarity \/ CheckSimilarityNew

SpecSim == InitSim /\ [][NextSim]_vars

\* ------------------------------------------------------------- detrend
\* A vector is a function on 0..n-1.
LenOf(v) == Cardinality(DOMAIN v)

\* line 269: int(np.ceil(nmed / 2))
Ntap(nmed) == (nmed + 1) \div 2

\* PadEdges gone wrong: the ends are padded with zeros
PadEdgesWithZeros(x, ntap) ==
    [p \in 0..(LenOf(x) + 2 * ntap - 1) |->
        IF p < ntap \/ p >= ntap + LenOf(x) THEN 0 ELSE x[p - ntap]]

\* line 270: np.r_[np.zeros(ntap) + x[0], x, np.zeros(ntap) + x[-1]]
PadEdges(x, ntap) ==
    [p \in 0..(LenOf(x) + 2 * ntap - 1) |->
        IF p < ntap THEN x[0]
        ELSE IF p < ntap + LenOf(x) THEN x[p - ntap]
        ELSE x[LenOf(x) - 1]]

\* scipy.signal.medfilt(v, k), k odd: the median of the k values around each
\* position, the vector extended with zeros beyond its ends
Medfilt(v, k) ==
    [p \in DOMAIN v |->
        KthSmallest([j \in 0..(k - 1) |->
                        IF (p - k \div 2 + j) \in DOMAIN v THEN v[p - k \div 2 + j] ELSE 0],
                    k \div 2)]

\* v[ntap:-ntap], ntap > 0
Trim(v, ntap) == [p \in 0..(LenOf(v) - 2 * ntap - 1) |-> v[p + ntap]]

\* the values of a vector, the odd window lengths
DetrendValues == {-1, 0, 1}
WindowLengths == {2 * h + 1 : h \in 0..MaxHalfWindow}

InitDetrend ==
    /\ MainIdle /\ IblIdle /\ SimIdle
    /\ det_pc = "called"
    /\ \E n \in 1..MaxLen : det_x \in [0..(n - 1) -> DetrendValues]
    /\ det_nmed \in WindowLengths
    /\ det_xf = <<>>
    /\ det_out = <<>>

\* lines 269-270
DetrendPad ==
    /\ det_pc = "called"
    /\ det_xf' = PadEdges(det_x, Ntap(det_nmed))
    /\ det_pc' = "padded"
    /\ UNCHANGED <<det_x, det_nmed, det_out, mainVars, iblVars, simVars>>

\* line 272
DetrendFilter ==
    /\ det_pc = "padded"
    /\ det_xf' = Trim(Medfilt(det_xf, det_nmed), Ntap(det_nmed))
    /\ det_pc' = "filtered"
    /\ UNCHANGED <<det_x, det_nmed, det_out, mainVars, iblVars, simVars>>

\* line 273
DetrendReturn ==
    /\ det_pc = "filtered"
    /\ det_out' = [p \in DOMAIN det_x |-> det_x[p] - det_xf[p]]
    /\ det_pc' = "returned"
    /\ UNCHANGED <<det_x, det_nmed, det_xf, mainVars, iblVars, simVars>>

NextDetrend == DetrendPad \/ DetrendFilter \/ DetrendReturn

SpecDetrend == InitDetrend /\ [][NextDetrend]_vars

\* ---------------------------------------------------------------- claims
\* The conditions of the claims, stated on the features themselves.
DeadCondition(c) == xfeats[c].xcor_hf < similarity_threshold[1]

NoisyCondition(c) ==
    xfeats[c].psd_hf > IblPsd \/ xfeats[c].xcor_hf > similarity_threshold[2]

\* F: the channels with xcor_lf < -0.75
FlaggedSet == {c \in 0..(nc - 1) : xfeats[c].xcor_lf < OutsideThreshold}

\* the maximal run of consecutive integers {k, ..., nc-1} contained in F
TrailingRun == {c \in 0..(nc - 1) : \A j \in c..(nc - 1) : j \in FlaggedSet}

MarkedOutside == {c \in DOMAIN ichannels : ichannels[c] = 3}

\* C1: in the label vector detect_bad_channels_ibl returns, a channel that
\* satisfies the noisy condition is labeled 2 whatever else holds of it;
\* otherwise a dead channel is labeled 1; otherwise a channel of the trailing
\* outside run is labeled 3; otherwise the channel is labeled 0.
C1_LabelPrecedence ==
    ibl_pc = "returned" =>
        \A c \in 0..(nc - 1) :
            ichannels[c] = IF NoisyCondition(c) THEN 2
                           ELSE IF DeadCondition(c) THEN 1
                           ELSE IF c \in TrailingRun THEN 3
                           ELSE 0

\* a returned chunk with a channel that is dead and noisy and in the outside run
C1_Witness ==
    /\ ibl_pc = "returned"
    /\ \E c \in 0..(nc - 1) :
           /\ DeadCondition(c) /\ NoisyCondition(c) /\ c \in TrailingRun
           /\ ichannels[c] = 2
    /\ \E c \in 0..(nc - 1) : DeadCondition(c) /\ ~NoisyCondition(c) /\ ichannels[c] = 1

\* C2: right after the outside branch (before the dead and noisy writes) the
\* channels marked 3 are exactly the maximal run {k, ..., nc-1} inside the
\* flagged set F when F is non-empty and holds nc-1, and no channel is marked
\* when F is empty or nc-1 is not in F.
C2_ContiguousRegion ==
    ibl_pc = "outside_marked" =>
        IF FlaggedSet # {} /\ (nc - 1) \in FlaggedSet
        THEN /\ MarkedOutside = TrailingRun
             /\ Range(ioutside) = TrailingRun
        ELSE MarkedOutside = {}

\* F = {6,7,9} of 10 channels has been reduced to {9}
C2_Witness ==
    /\ ibl_pc = "outside_marked"
    /\ nc = 10
    /\ FlaggedSet = {6, 7, 9}
    /\ MarkedOutside = {9}

\* ---- claims about detect_bad_channels
NumChannels == recording.num_channels

LabelValues == 0..3

ModeTaken == pc \in {"warn", "done"}

\* the number of columns of channel c that hold label v
Votes(c, v) == Cardinality({j \in DOMAIN channel_labels[c] : channel_labels[c][j] = v})

\* C3: once the mode is taken, the final flag of every channel is a label no
\* other label outnumbers in the channel's row of the label matrix, and every
\* label with as many occurrences is not lower than it.
C3_ModeLowestOnTies ==
    ModeTaken =>
        \A c \in 0..(NumChannels - 1) :
            \A v \in LabelValues :
                /\ Votes(c, channel_flags[c]) >= Votes(c, v)
                /\ Votes(c, v) = Votes(c, channel_flags[c]) => channel_flags[c] <= v

\* a channel with labels [0,0,1] flagged 0, beside a channel whose labels 0,
\* 1 and 2 tie with one occurrence each and whose flag is the lowest, 0
C3_Witness ==
    /\ ModeTaken
    /\ \E c \in 0..(NumChannels - 1) :
          /\ DOMAIN channel_labels[c] = 0..2
          /\ channel_labels[c][0] = 0 /\ channel_labels[c][1] = 0 /\ channel_labels[c][2] = 1
          /\ channel_flags[c] = 0
    /\ \E c \in 0..(NumChannels - 1) :
          /\ Votes(c, 0) = 1 /\ Votes(c, 1) = 1 /\ Votes(c, 2) = 1
          /\ channel_flags[c] = 0

\* B: the channels with a non-zero final flag
NumBad == Cardinality({c \in DOMAIN channel_flags : channel_flags[c] # 0})

\* C4: once the warning test has run, the warning was emitted exactly when
\* the bad channels are more than a third of the channels (3*B > N).
C4_WarningOverOneThird ==
    pc = "done" => (warned <=> 3 * NumBad > NumChannels)

\* C5: a call whose random_chunk_kwargs ask for concatenation never reaches
\* the chunk sampler, classifies no chunk, builds no label matrix and returns
\* nothing, and the exception that ends it is the configuration error.
C5_ConcatenationFailsFast ==
    ConcatenationRequested(user_kwargs) =>
        /\ sampler_calls = <<>>
        /\ ibl_calls = <<>>
        /\ channel_labels = <<>>
        /\ result = {}
        /\ pc # "done"
        /\ pc = "failed" => error = "AttributeError"

\* C6: a call without psd_hf_threshold gets past the threshold default, the
\* threshold it holds is 1.4 below 5000 Hz and 0.02 from 5000 Hz on, and that
\* value is the one every call of the single-chunk classifier receives.
C6_DefaultPsdThreshold ==
    (psd_arg = {} /\ pc # "start") =>
        /\ error # "NameError"
        /\ psd_hf_threshold = {DefaultPsdThreshold(recording.fs)}
        /\ \A k \in DOMAIN ibl_calls :
              ibl_calls[k].psd_hf_threshold = DefaultPsdThreshold(recording.fs)

SamplerKeys == {"return_scaled", "num_chunks_per_segment", "chunk_size", "concatenated", "seed"}

\* C7: once handle_random_chunk_kwargs has run, a call without
\* random_chunk_kwargs has not failed in it and invokes the sampler with
\* chunk_size int(0.3 fs), 10 chunks per segment, seed 0 and no
\* concatenation; with a mapping, the sampler gets the caller's value for
\* every key given and the default for every key not given.
C7_DefaultChunkPolicy ==
    pc \notin {"start", "kwargs"} /\ psd_arg # {} =>
        /\ user_kwargs = {} =>
              /\ error = "none"
              /\ \A k \in DOMAIN sampler_calls :
                    /\ sampler_calls[k].chunk_size = ChunkSize(recording.fs)
                    /\ sampler_calls[k].num_chunks_per_segment = DefaultNumChunks
                    /\ sampler_calls[k].seed = DefaultSeed
                    /\ sampler_calls[k].concatenated = FALSE
        /\ \A u \in user_kwargs : \A k \in DOMAIN sampler_calls : \A key \in SamplerKeys :
              sampler_calls[k][key] =
                  IF key \in DOMAIN u THEN u[key] ELSE DefaultRandomChunkKwargs(recording)[key]

AllChunksClassified == pc \in {"loop", "warn", "done"} /\ i = num_chunks

ResultIsTheBadChannels ==
    pc = "done" =>
        \E r \in result :
            /\ r[3] = channel_flags
            /\ Len(r[1]) = NumBad
            /\ Range(r[1]) = {c \in 0..(NumChannels - 1) : channel_flags[c] # 0}
            /\ \A k \in 1..(Len(r[1]) - 1) : r[1][k] < r[1][k + 1]
            /\ Len(r[2]) = Len(r[1])
            /\ \A k \in 1..Len(r[1]) : r[2][k] = recording.channel_ids[r[1][k]]

\* a step from a state with all chunks classified moves the run on towards
\* its return and raises nothing
MovesOnToReturn ==
    AllChunksClassified =>
        /\ error' = "none"
        /\ \/ pc = "loop" /\ pc' = "warn"
           \/ pc = "warn" /\ pc' = "done" /\ result' # {}

\* C9: a run that has classified all its chunks has not failed, each of its
\* further steps moves it on to the return without raising, and the step that
\* tests for the warning can always be taken, with or without the warning;
\* the triple returned holds the ascending positions of the non-zero final
\* flags, the recording's identifier at each of these positions, and the
\* flags.
C9_ResultReturned ==
    /\ [](AllChunksClassified => error = "none")
    /\ [](pc = "warn" => ENABLED WarnAndReturn)
    /\ [][MovesOnToReturn]_vars
    /\ []ResultIsTheBadChannels

\* a run that warned and returned two bad channels, neither of them dead
C9_Witness ==
    /\ pc = "done"
    /\ warned
    /\ \E r \in result : Len(r[1]) = 2 /\ \A k \in 1..2 : channel_flags[r[1][k]] # 1

LabelsInRange ==
    /\ \A c \in DOMAIN channel_labels : \A j \in DOMAIN channel_labels[c] :
          channel_labels[c][j] \in LabelValues
    /\ \A c \in DOMAIN channel_flags : channel_flags[c] \in LabelValues

\* a turn of the loop on chunk i changes column i alone
WritesColumnAlone ==
    (pc = "loop" /\ i' = i + 1) =>
        \A c \in DOMAIN channel_labels : \A j \in DOMAIN channel_labels[c] :
            j # i => channel_labels'[c][j] = channel_labels[c][j]

\* outside the turns of the loop the matrix, once created, is left alone
MatrixKept == (pc # "labels" /\ i' = i) => channel_labels' = channel_labels

\* C10: every entry of the label matrix and every final flag is one of 0, 1,
\* 2, 3 at every point of the run, a turn of the loop on chunk i changes
\* column i and no other column, and no other step changes the matrix.
C10_LabelMatrixInvariant ==
    /\ []LabelsInRange
    /\ [][WritesColumnAlone /\ MatrixKept]_vars

\* the second chunk has been written with a bad label while the first
\* column holds another bad label
C10_Witness ==
    /\ pc = "loop"
    /\ i = 2
    /\ \E c \in DOMAIN channel_labels : channel_labels[c][0] = 3 /\ channel_labels[c][1] = 2

\* ---- claims about channel_similarity
\* the cross-channel median reference has non-zero energy
ReferenceHasEnergy == Dot(MedianReference(raw), MedianReference(raw)) # 0

\* C8: for a centered chunk whose median reference has non-zero energy, the
\* FFT cross-correlation path and the direct formula differ by at most 1e-2
\* on every channel, and no agreement assertion has failed.
C8_SimilarityPathsAgree ==
    (sim_pc # "chunk" /\ ReferenceHasEnergy) =>
        /\ AllClose(xcor, alt_comp, 100)
        /\ sim_error = "none"

\* ---- the outside labels of the returned vector
LabeledOutside == {c \in 0..(nc - 1) : ichannels[c] = 3}

Clamp(j, n) == IF j < 0 THEN 0 ELSE IF j > n - 1 THEN n - 1 ELSE j

\* the values x[clamp(j)] for j = p-(w-1)/2 .. p+(w-1)/2
ClampedWindow(p) ==
    [j \in 0..(det_nmed - 1) |-> det_x[Clamp(p - (det_nmed - 1) \div 2 + j, LenOf(det_x))]]

\* m is the median of an odd number of values: at most half of them (rounded
\* down) are below it, at most half above it, and it is one of them
IsMedianOf(m, win) ==
    /\ m \in Range(win)
    /\ 2 * Cardinality({j \in DOMAIN win : win[j] < m}) < LenOf(win)
    /\ 2 * Cardinality({j \in DOMAIN win : win[j] > m}) < LenOf(win)

\* C12: detrend(x, w) for an odd w returns, at every index p of x, x[p]
\* minus the median of the w values x[clamp(j, 0, n-1)] around p, so no zero
\* of the median filter's padding enters; the result has the length of x and
\* is all zero when x is constant.
C12_DetrendEdgeExtension ==
    det_pc = "returned" =>
        /\ DOMAIN det_out = DOMAIN det_x
        /\ \A p \in DOMAIN det_x : IsMedianOf(det_x[p] - det_out[p], ClampedWindow(p))
        /\ (\A p, q \in DOMAIN det_x : det_x[p] = det_x[q]) =>
               \A p \in DOMAIN det_out : det_out[p] = 0

\* a vector shorter than the window, none of its values zero, has been
\* detrended: every window reaches past both ends
C12_Witness ==
    /\ det_pc = "returned"
    /\ det_nmed = 5
    /\ LenOf(det_x) = 2
    /\ det_x[0] = 1 /\ det_x[1] = -1
    /\ det_out[0] = 0 /\ det_out[1] = 0

====
